---- MODULE Spec2Model ----
(***************************************************************************)
(* Model of src/src/main.rs: a dispatcher (main) spawns one worker thread  *)
(* per transaction; every worker locks the accounts mutex, then the        *)
(* transactions mutex, reads transactions[iterator] and runs               *)
(* execute_transaction on the accounts; main joins the workers in spawn    *)
(* order and prints the final balances.                                    *)
(*                                                                         *)
(* Amounts and balances are f64 in the source.  Every value the model      *)
(* uses is a small integer, which f64 represents and adds exactly, so      *)
(* they are modelled as Int.                                               *)
(***************************************************************************)
EXTENDS Integers, Sequences, FiniteSets, TLC

VARIABLES
    transactions,        \* main.rs:75   the queue, a sequence of Transaction
    accounts,            \* main.rs:123  the ledger, a sequence of Account
    accountsHolders,     \* threads that hold a guard of Mutex<accounts>
    accountsPoisoned,    \* poison flag of Mutex<accounts>
    transactionsHolders, \* threads that hold a guard of Mutex<transactions>
    transactionsPoisoned,\* poison flag of Mutex<transactions>
    iterator,            \* main.rs:147  loop counter of main
    handles,             \* main.rs:144  Vec<JoinHandle>, as worker numbers
    joined,              \* number of handles the join loop has consumed
    mainPc,              \* position of main
    pc,                  \* position of every worker closure
    captured,            \* the value of iterator moved into each closure
    transaction,         \* index (0-based) of the &Transaction a worker holds
    tmp,                 \* balance loaded by a worker for -= / +=
    panicking,           \* whether a worker is unwinding from a panic
    entry,               \* per worker: the ledger as execute_transaction found it
    calls,               \* per worker: queue indices it ran execute_transaction on
    notFound,            \* per worker: number of "not found" diagnostics
    completedMsg,        \* per worker: "Thread {} Completed" was printed
    report               \* the final balance reports printed so far

vars == <<transactions, accounts, accountsHolders, accountsPoisoned,
          transactionsHolders, transactionsPoisoned, iterator, handles,
          joined, mainPc, pc, captured, transaction, tmp, panicking, entry,
          calls, notFound, completedMsg, report>>

\* ------------------------------------------------------------------ data

Transaction(id, amount, w, d) ==
    [id |-> id, amount |-> amount, withdraw_account |-> w, deposit_account |-> d]

Account(name, balance) == [name |-> name, balance |-> balance]

\* main.rs:75-118
MainTransactions ==
    << Transaction(1, 5, "A1", "A2"),
       Transaction(2, 7, "A3", ""),
       Transaction(3, 10, "A2", "A1"),
       Transaction(4, 15, "A1", "A3"),
       Transaction(5, 8, "A1", "A3"),
       Transaction(6, 3, "A2", "A1"),
       Transaction(7, 6, "A3", "A1") >>

\* main.rs:123-136
MainAccounts ==
    << Account("A1", 0), Account("A2", 0), Account("A3", 0) >>

\* main.rs:120
transactions_length == Len(transactions)

Workers == 0 .. (transactions_length - 1)

\* the main thread, next to the worker threads 0 .. N-1
Main == -1

\* ------------------------------------------------------- pure operators

\* accounts.iter().find(|account| account.name == name): the position
\* (1-based) of the first account with that name, 0 for None
RECURSIVE FindFrom(_, _, _)
FindFrom(accts, name, i) ==
    IF i > Len(accts) THEN 0
    ELSE IF accts[i].name = name THEN i
    ELSE FindFrom(accts, name, i + 1)

\* variant: a lookup that falls back to the last account
FindOrLast(accts, name) ==
    IF FindFrom(accts, name, 1) = 0 THEN Len(accts)
    ELSE FindFrom(accts, name, 1)

Find(accts, name) == FindFrom(accts, name, 1)

\* variant: a withdrawal that is refused when the balance is too low
WithdrawValueChecked(balance, amount) ==
    IF balance >= amount THEN balance - amount ELSE balance

\* variant: operands of the subtraction swapped
WithdrawValueSwapped(balance, amount) == amount - balance

\* *account.balance.borrow_mut() -= amount, as the value stored
WithdrawValue(balance, amount) == balance - amount

\* variant: `=` written for `+=`
DepositValueAssign(balance, amount) == amount

\* *account.balance.borrow_mut() += amount, as the value stored
DepositValue(balance, amount) == balance + amount

\* variant: the account is rebuilt with a default name
SetBalanceRebuilt(accts, i, b) == [accts EXCEPT ![i] = Account("", b)]

SetBalance(accts, i, b) == [accts EXCEPT ![i].balance = b]

\* main.rs:27-46, the withdraw leg as a function of the ledger
WithdrawLeg(accts, t) ==
    IF t.withdraw_account # ""
    THEN LET i == Find(accts, t.withdraw_account)
         IN IF i = 0 THEN accts
            ELSE SetBalance(accts, i, WithdrawValue(accts[i].balance, t.amount))
    ELSE accts

\* main.rs:49-65, the deposit leg as a function of the ledger
DepositLeg(accts, t) ==
    IF t.deposit_account # ""
    THEN LET i == Find(accts, t.deposit_account)
         IN IF i = 0 THEN accts
            ELSE SetBalance(accts, i, DepositValue(accts[i].balance, t.amount))
    ELSE accts

\* main.rs:22-71, one uninterrupted call
execute_transaction(t, accts) == DepositLeg(WithdrawLeg(accts, t), t)

\* variant: lock() that never waits
LockFreeNoWait(holders) == TRUE

\* Mutex::lock blocks until no guard of the mutex is alive
LockFree(holders) == holders = {}

\* variant: a guard that is leaked instead of dropped
ReleaseLeak(holders, w) == holders

\* dropping a guard unlocks the mutex for the thread that held it
Release(holders, w) == holders \ {w}

\* variant: a join that does not wait
ThreadEndedNoWait(p) == TRUE

\* JoinHandle::join returns once the thread has ended
ThreadEnded(p) == p \in {"finished", "panicked"}

\* variant: the result of join() is ignored
JoinOkIgnored(p) == TRUE

\* join() is Ok unless the thread panicked; unwrap() panics on Err
JoinOk(p) == p # "panicked"

\* variant: the closure sees iterator after `iterator += 1`
CapturedIteratorLate(it) == it + 1

\* the closure is `move`: it takes a copy of iterator as it is at the
\* thread::spawn call, before `iterator += 1`
CapturedIterator(it) == it

\* ------------------------------------------------------------------ Init

InitControl ==
    /\ accountsHolders = {}
    /\ accountsPoisoned = FALSE
    /\ transactionsHolders = {}
    /\ transactionsPoisoned = FALSE
    /\ iterator = 0
    /\ handles = << >>
    /\ joined = 0
    /\ mainPc = "spawn"
    /\ pc = [w \in Workers |-> "unspawned"]
    /\ captured = [w \in Workers |-> -1]
    /\ transaction = [w \in Workers |-> -1]
    /\ tmp = [w \in Workers |-> 0]
    /\ panicking = [w \in Workers |-> FALSE]
    /\ entry = [w \in Workers |-> << >>]
    /\ calls = [w \in Workers |-> << >>]
    /\ notFound = [w \in Workers |-> 0]
    /\ completedMsg = [w \in Workers |-> FALSE]
    /\ report = << >>

\* main.rs:73-147
Init ==
    /\ transactions = MainTransactions
    /\ accounts = MainAccounts
    /\ InitControl

\* --------------------------------------------------------------- actions

mainVars == <<iterator, handles, joined, mainPc, report>>
lockVars == <<accountsHolders, accountsPoisoned,
              transactionsHolders, transactionsPoisoned>>
logVars  == <<entry, calls, notFound, completedMsg>>

\* variant: every worker indexes the queue with 0
TransactionOfFirst(w) == transactions[1]

\* the transaction a worker holds a reference to (main.rs:166)
TransactionOf(w) == transactions[transaction[w] + 1]

\* main.rs:148-179: one turn of the while loop, or its exit
SpawnLoop ==
    /\ mainPc = "spawn"
    /\ IF iterator < transactions_length
       THEN LET w == Len(handles)
            IN /\ pc' = [pc EXCEPT ![w] = "spawned"]
               /\ captured' = [captured EXCEPT ![w] = CapturedIterator(iterator)]
               /\ iterator' = iterator + 1
               /\ handles' = Append(handles, w)
               /\ UNCHANGED mainPc
       ELSE /\ mainPc' = "join"
            /\ UNCHANGED <<pc, captured, iterator, handles>>
    /\ UNCHANGED <<transactions, accounts, lockVars, joined, report,
                   transaction, tmp, panicking, logVars>>

\* main.rs:156: the thread starts running
ThreadStart(w) ==
    /\ pc[w] = "spawned"
    /\ pc' = [pc EXCEPT ![w] = "lockAccounts"]
    /\ UNCHANGED <<transactions, accounts, lockVars, mainVars, captured,
                   transaction, tmp, panicking, logVars>>

\* variant: a mutex that serves the threads in the order of their spawn
LockAccountsFifo(w) ==
    /\ pc[w] = "lockAccounts"
    /\ LockFree(accountsHolders)
    /\ \A v \in Workers : v < w => pc[v] \notin {"spawned", "lockAccounts"}
    /\ accountsHolders' = accountsHolders \cup {w}
    /\ IF accountsPoisoned
       THEN /\ panicking' = [panicking EXCEPT ![w] = TRUE]
            /\ pc' = [pc EXCEPT ![w] = "dropAccounts"]
       ELSE /\ pc' = [pc EXCEPT ![w] = "lockTransactions"]
            /\ UNCHANGED panicking
    /\ UNCHANGED <<transactions, accounts, accountsPoisoned,
                   transactionsHolders, transactionsPoisoned, mainVars,
                   captured, transaction, tmp, logVars>>

\* variant: the two lock() calls in the other order
LockAccountsSwapped(w) ==
    /\ pc[w] = "lockAccounts"
    /\ LockFree(transactionsHolders)
    /\ transactionsHolders' = transactionsHolders \cup {w}
    /\ pc' = [pc EXCEPT ![w] = "lockTransactions"]
    /\ UNCHANGED <<transactions, accounts, accountsHolders, accountsPoisoned,
                   transactionsPoisoned, mainVars, captured, transaction,
                   tmp, panicking, logVars>>

\* main.rs:159: accounts_reference.lock().unwrap()
LockAccounts(w) ==
    /\ pc[w] = "lockAccounts"
    /\ LockFree(accountsHolders)
    /\ accountsHolders' = accountsHolders \cup {w}
    /\ IF accountsPoisoned
       THEN /\ panicking' = [panicking EXCEPT ![w] = TRUE]
            /\ pc' = [pc EXCEPT ![w] = "dropAccounts"]
       ELSE /\ pc' = [pc EXCEPT ![w] = "lockTransactions"]
            /\ UNCHANGED panicking
    /\ UNCHANGED <<transactions, accounts, accountsPoisoned,
                   transactionsHolders, transactionsPoisoned, mainVars,
                   captured, transaction, tmp, logVars>>

\* main.rs:161: transactions_reference.lock().unwrap()
LockTransactions(w) ==
    /\ pc[w] = "lockTransactions"
    /\ LockFree(transactionsHolders)
    /\ transactionsHolders' = transactionsHolders \cup {w}
    /\ IF transactionsPoisoned
       THEN /\ panicking' = [panicking EXCEPT ![w] = TRUE]
            /\ pc' = [pc EXCEPT ![w] = "dropTransactions"]
       ELSE /\ pc' = [pc EXCEPT ![w] = "read"]
            /\ UNCHANGED panicking
    /\ UNCHANGED <<transactions, accounts, accountsHolders, accountsPoisoned,
                   transactionsPoisoned, mainVars, captured, transaction,
                   tmp, logVars>>

\* main.rs:163-169 and 24: &transactions[iterator] (panics when out of
\* bounds), then the call of execute_transaction
ReadTransaction(w) ==
    /\ pc[w] = "read"
    /\ IF captured[w] < Len(transactions)
       THEN /\ transaction' = [transaction EXCEPT ![w] = captured[w]]
            /\ calls' = [calls EXCEPT ![w] = Append(@, captured[w])]
            /\ entry' = [entry EXCEPT ![w] = accounts]
            /\ pc' = [pc EXCEPT ![w] = "withdraw"]
            /\ UNCHANGED panicking
       ELSE /\ panicking' = [panicking EXCEPT ![w] = TRUE]
            /\ pc' = [pc EXCEPT ![w] = "dropTransactions"]
            /\ UNCHANGED <<transaction, calls, entry>>
    /\ UNCHANGED <<transactions, accounts, lockVars, mainVars, captured,
                   tmp, notFound, completedMsg>>

\* variant: execute_transaction returns when the withdraw account is not
\* found
WithdrawAbort(w) ==
    /\ pc[w] = "withdraw"
    /\ LET t == TransactionOf(w)
           i == Find(accounts, t.withdraw_account)
       IN IF t.withdraw_account # ""
          THEN IF i = 0
               THEN /\ notFound' = [notFound EXCEPT ![w] = @ + 1]
                    /\ pc' = [pc EXCEPT ![w] = "completed"]
                    /\ UNCHANGED tmp
               ELSE /\ tmp' = [tmp EXCEPT ![w] = accounts[i].balance]
                    /\ pc' = [pc EXCEPT ![w] = "withdrawStore"]
                    /\ UNCHANGED notFound
          ELSE /\ pc' = [pc EXCEPT ![w] = "deposit"]
               /\ UNCHANGED <<tmp, notFound>>
    /\ UNCHANGED <<transactions, accounts, lockVars, mainVars, captured,
                   transaction, panicking, entry, calls, completedMsg>>

\* main.rs:27-41: the lookup of the withdraw leg and the load of the balance
Withdraw(w) ==
    /\ pc[w] = "withdraw"
    /\ LET t == TransactionOf(w)
           i == Find(accounts, t.withdraw_account)
       IN IF t.withdraw_account # ""
          THEN IF i = 0
               THEN /\ notFound' = [notFound EXCEPT ![w] = @ + 1]
                    /\ pc' = [pc EXCEPT ![w] = "deposit"]
                    /\ UNCHANGED tmp
               ELSE /\ tmp' = [tmp EXCEPT ![w] = accounts[i].balance]
                    /\ pc' = [pc EXCEPT ![w] = "withdrawStore"]
                    /\ UNCHANGED notFound
          ELSE /\ pc' = [pc EXCEPT ![w] = "deposit"]
               /\ UNCHANGED <<tmp, notFound>>
    /\ UNCHANGED <<transactions, accounts, lockVars, mainVars, captured,
                   transaction, panicking, entry, calls, completedMsg>>

\* main.rs:43: the store of balance - amount
WithdrawStore(w) ==
    /\ pc[w] = "withdrawStore"
    /\ LET t == TransactionOf(w)
           i == Find(accounts, t.withdraw_account)
       IN accounts' = SetBalance(accounts, i, WithdrawValue(tmp[w], t.amount))
    /\ pc' = [pc EXCEPT ![w] = "deposit"]
    /\ UNCHANGED <<transactions, lockVars, mainVars, captured, transaction,
                   tmp, panicking, logVars>>

\* main.rs:49-59: the lookup of the deposit leg and the load of the balance
Deposit(w) ==
    /\ pc[w] = "deposit"
    /\ LET t == TransactionOf(w)
           i == Find(accounts, t.deposit_account)
       IN IF t.deposit_account # ""
          THEN IF i = 0
               THEN /\ notFound' = [notFound EXCEPT ![w] = @ + 1]
                    /\ pc' = [pc EXCEPT ![w] = "completed"]
                    /\ UNCHANGED tmp
               ELSE /\ tmp' = [tmp EXCEPT ![w] = accounts[i].balance]
                    /\ pc' = [pc EXCEPT ![w] = "depositStore"]
                    /\ UNCHANGED notFound
          ELSE /\ pc' = [pc EXCEPT ![w] = "completed"]
               /\ UNCHANGED <<tmp, notFound>>
    /\ UNCHANGED <<transactions, accounts, lockVars, mainVars, captured,
                   transaction, panicking, entry, calls, completedMsg>>

\* main.rs:62: the store of balance + amount
DepositStore(w) ==
    /\ pc[w] = "depositStore"
    /\ LET t == TransactionOf(w)
           i == Find(accounts, t.deposit_account)
       IN accounts' = SetBalance(accounts, i, DepositValue(tmp[w], t.amount))
    /\ pc' = [pc EXCEPT ![w] = "completed"]
    /\ UNCHANGED <<transactions, lockVars, mainVars, captured, transaction,
                   tmp, panicking, logVars>>

\* main.rs:70 and 171: the two completion messages, guards still alive
Completed(w) ==
    /\ pc[w] = "completed"
    /\ completedMsg' = [completedMsg EXCEPT ![w] = TRUE]
    /\ entry' = [entry EXCEPT ![w] = << >>]
    /\ pc' = [pc EXCEPT ![w] = "dropTransactions"]
    /\ UNCHANGED <<transactions, accounts, lockVars, mainVars, captured,
                   transaction, tmp, panicking, calls, notFound>>

\* variant: the accounts guard is dropped first
DropAccountsFirst(w) ==
    /\ pc[w] = "dropTransactions"
    /\ accountsHolders' = Release(accountsHolders, w)
    /\ accountsPoisoned' = (accountsPoisoned \/ panicking[w])
    /\ pc' = [pc EXCEPT ![w] = "dropAccounts"]
    /\ UNCHANGED <<transactions, accounts, transactionsHolders,
                   transactionsPoisoned, mainVars, captured, transaction,
                   tmp, panicking, logVars>>

\* main.rs:172: end of the closure (or unwinding); locals are dropped in
\* reverse order of declaration, the transactions guard first.  A guard
\* dropped while its thread panics poisons the mutex.
DropTransactions(w) ==
    /\ pc[w] = "dropTransactions"
    /\ transactionsHolders' = Release(transactionsHolders, w)
    /\ transactionsPoisoned' = (transactionsPoisoned \/ panicking[w])
    /\ pc' = [pc EXCEPT ![w] = "dropAccounts"]
    /\ UNCHANGED <<transactions, accounts, accountsHolders, accountsPoisoned,
                   mainVars, captured, transaction, tmp, panicking, logVars>>

\* main.rs:172: the accounts guard is dropped and the thread ends
DropAccounts(w) ==
    /\ pc[w] = "dropAccounts"
    /\ accountsHolders' = Release(accountsHolders, w)
    /\ accountsPoisoned' = (accountsPoisoned \/ panicking[w])
    /\ pc' = [pc EXCEPT ![w] = IF panicking[w] THEN "panicked" ELSE "finished"]
    /\ UNCHANGED <<transactions, accounts, transactionsHolders,
                   transactionsPoisoned, mainVars, captured, transaction,
                   tmp, panicking, logVars>>

\* main.rs:182-184: handle.join().unwrap() on the next handle, or the end
\* of the for loop
Join ==
    /\ mainPc = "join"
    /\ IF joined < Len(handles)
       THEN LET h == handles[joined + 1]
            IN /\ ThreadEnded(pc[h])
               /\ IF JoinOk(pc[h])
                  THEN joined' = joined + 1 /\ UNCHANGED mainPc
                  ELSE mainPc' = "panicked" /\ UNCHANGED joined
       ELSE mainPc' = "lockReport" /\ UNCHANGED joined
    /\ UNCHANGED <<transactions, accounts, lockVars, iterator, handles,
                   report, pc, captured, transaction, tmp, panicking, logVars>>

\* main.rs:187-188: accounts_reference.lock().unwrap()
LockReport ==
    /\ mainPc = "lockReport"
    /\ LockFree(accountsHolders)
    /\ IF accountsPoisoned
       THEN mainPc' = "panicked" /\ UNCHANGED accountsHolders
       ELSE /\ mainPc' = "report"
            /\ accountsHolders' = accountsHolders \cup {Main}
    /\ UNCHANGED <<transactions, accounts, accountsPoisoned,
                   transactionsHolders, transactionsPoisoned, iterator,
                   handles, joined, report, pc, captured, transaction, tmp,
                   panicking, logVars>>

\* main.rs:188-190: print every account, then the temporary guard is dropped
Report ==
    /\ mainPc = "report"
    /\ report' = Append(report,
                    [i \in 1 .. Len(accounts) |->
                        <<accounts[i].name, accounts[i].balance>>])
    /\ accountsHolders' = Release(accountsHolders, Main)
    /\ mainPc' = "done"
    /\ UNCHANGED <<transactions, accounts, accountsPoisoned,
                   transactionsHolders, transactionsPoisoned, iterator,
                   handles, joined, pc, captured, transaction, tmp,
                   panicking, logVars>>

Next ==
    \/ SpawnLoop
    \/ Join
    \/ LockReport
    \/ Report
    \/ \E w \in Workers : ThreadStart(w)
    \/ \E w \in Workers : LockAccounts(w)
    \/ \E w \in Workers : LockTransactions(w)
    \/ \E w \in Workers : ReadTransaction(w)
    \/ \E w \in Workers : Withdraw(w)
    \/ \E w \in Workers : WithdrawStore(w)
    \/ \E w \in Workers : Deposit(w)
    \/ \E w \in Workers : DepositStore(w)
    \/ \E w \in Workers : Completed(w)
    \/ \E w \in Workers : DropTransactions(w)
    \/ \E w \in Workers : DropAccounts(w)

Spec == Init /\ [][Next]_vars

\* the steps of main and of one worker thread
MainStep == SpawnLoop \/ Join \/ LockReport \/ Report

WorkerStep(w) ==
    \/ ThreadStart(w) \/ LockAccounts(w) \/ LockTransactions(w)
    \/ ReadTransaction(w) \/ Withdraw(w) \/ WithdrawStore(w)
    \/ Deposit(w) \/ DepositStore(w) \/ Completed(w)
    \/ DropTransactions(w) \/ DropAccounts(w)

\* the operating system schedules every thread that can run: main and
\* each of the threads main.rs:155 spawns
SpecFair ==
    /\ Init
    /\ [][Next]_vars
    /\ WF_vars(MainStep)
    /\ \A w \in 0 .. (Len(MainTransactions) - 1) : WF_vars(WorkerStep(w))

\* ------------------------------------------- execute_transaction alone

MaxAmount == 2
MaxBalance == 1

AnyNames == {"", "A1", "A2", "A3", "A9"}

\* one worker, any single transaction over known, unknown and empty
\* account names, any starting balances
InitAny ==
    /\ transactions \in
          { << Transaction(1, a, w, d) >> :
               a \in 0 .. MaxAmount, w \in AnyNames, d \in AnyNames }
    /\ accounts \in
          { << Account("A1", b1), Account("A2", b2), Account("A3", b3) >> :
               b1 \in -MaxBalance .. MaxBalance,
               b2 \in -MaxBalance .. MaxBalance,
               b3 \in -MaxBalance .. MaxBalance }
    /\ InitControl

SpecAny == InitAny /\ [][Next]_vars

\* ------------------------------------------------------ worker failure

\* println! panics when the write to stdout fails: main.rs:156 (no guard
\* held yet), and 163, 24, 35/37, 57/59, 70, 171 (both guards held)
PrintFails(w) ==
    /\ pc[w] \in {"spawned", "read", "withdraw", "deposit", "completed"}
    /\ panicking' = [panicking EXCEPT ![w] = TRUE]
    /\ pc' = [pc EXCEPT ![w] = IF pc[w] = "spawned" THEN "panicked"
                                ELSE "dropTransactions"]
    /\ UNCHANGED <<transactions, accounts, lockVars, mainVars, captured,
                   transaction, tmp, logVars>>

NextPanic == Next \/ \E w \in Workers : PrintFails(w)

FailQueueLen == 4

\* the first FailQueueLen transactions of main's queue
InitPanic ==
    /\ transactions = SubSeq(MainTransactions, 1, FailQueueLen)
    /\ accounts = MainAccounts
    /\ InitControl

SpecPanic == InitPanic /\ [][NextPanic]_vars

\* --------------------------------------------------------------- claims

\* the pairs <<ledger, indices not yet applied>> that k serial applications
\* of execute_transaction, in any order without repetition, lead to
RECURSIVE SerialLevel(_, _)
SerialLevel(accts, k) ==
    IF k = 0 THEN { <<accts, Workers>> }
    ELSE LET prev == SerialLevel(accts, k - 1)
         IN UNION { { <<execute_transaction(transactions[i + 1], p[1]),
                        p[2] \ {i}>> : i \in p[2] } : p \in prev }

\* the ledgers that the serial executions of the whole queue, in every
\* order, end with
SerialResults(accts) ==
    { p[1] : p \in SerialLevel(accts, transactions_length) }

\* the ledger after the transactions i .. N were applied in queue order
RECURSIVE SerialFrom(_, _)
SerialFrom(accts, i) ==
    IF i > Len(transactions) THEN accts
    ELSE SerialFrom(execute_transaction(transactions[i], accts), i + 1)

Snapshot(accts) ==
    [i \in 1 .. Len(accts) |-> <<accts[i].name, accts[i].balance>>]

AllJoined == mainPc \in {"lockReport", "report", "done"}

\* C1: worker i runs execute_transaction at most once and only on queue
\* index i; once main has joined every handle, every index 0..N-1 has been
\* executed exactly once, by its own worker.
C1_ExactlyOnce ==
    /\ \A w \in Workers : calls[w] \in { << >>, <<w>> }
    /\ AllJoined => \A w \in Workers : calls[w] = <<w>>

C1_Witness ==
    /\ mainPc = "done"
    /\ transactions_length = 7
    /\ \A w \in Workers : calls[w] = <<w>>

CriticalPcs == {"read", "withdraw", "withdrawStore", "deposit", "depositStore"}

\* C2: each mutex has at most one guard alive, and a worker that is about
\* to read its transaction or to load or store a balance is the one holder
\* of both guards.
C2_MutualExclusion ==
    /\ Cardinality(accountsHolders) <= 1
    /\ Cardinality(transactionsHolders) <= 1
    /\ \A w \in Workers :
          pc[w] \in CriticalPcs =>
              accountsHolders = {w} /\ transactionsHolders = {w}

C2_Witness ==
    \E w \in Workers, v \in Workers :
        /\ w # v
        /\ pc[w] = "withdrawStore"
        /\ accountsHolders = {w}
        /\ pc[v] = "lockAccounts"

\* C3: when main is done, the balances are those of some serial execution
\* of the queue, i.e. of execute_transaction applied to the initial ledger
\* once per transaction in some order.
C3_Serializable ==
    mainPc = "done" => accounts \in SerialResults(MainAccounts)

C3_Witness ==
    /\ mainPc = "done"
    /\ accounts # MainAccounts
    /\ accounts \in SerialResults(MainAccounts)

\* C4: the final balances are a function of the queue and the initial
\* balances alone: whatever the interleaving, main ends with the ledger
\* that applying the queue in submission order gives, and reports it.
C4_Deterministic ==
    mainPc = "done" =>
        /\ accounts = SerialFrom(MainAccounts, 1)
        /\ report = << Snapshot(SerialFrom(MainAccounts, 1)) >>

\* main is done after all seven workers ran, with the submission-order ledger
C4_Witness ==
    /\ mainPc = "done"
    /\ accounts = SerialFrom(MainAccounts, 1)
    /\ transactions_length = 7

\* C5 as stated: the report shows A1 = -9, A2 = -2, A3 = -9.
C5_Original ==
    mainPc = "done" =>
        report = << << <<"A1", -9>>, <<"A2", -2>>, <<"A3", -9>> >> >>

\* C5 amended: the report shows A1 = -9, A2 = -8, A3 = 10, whatever the
\* execution order.
C5_FinalBalances ==
    mainPc = "done" =>
        report = << << <<"A1", -9>>, <<"A2", -8>>, <<"A3", 10>> >> >>

C5_Witness ==
    /\ mainPc = "done"
    /\ Len(report) = 1
    /\ report[1][2] = <<"A2", -8>>

RECURSIVE SumFrom(_, _)
SumFrom(accts, i) ==
    IF i > Len(accts) THEN 0 ELSE accts[i].balance + SumFrom(accts, i + 1)

\* the sum of all balances of a ledger
SumBalances(accts) == SumFrom(accts, 1)

\* some account of the ledger has this name
Exists(accts, name) == \E i \in 1 .. Len(accts) : accts[i].name = name

\* C6: when execute_transaction has run both legs of a transaction whose
\* withdraw and deposit accounts both exist, the sum of all balances is
\* the sum it found on entry.
C6_Conservation ==
    \A w \in Workers :
        ( /\ pc[w] = "completed"
          /\ Exists(entry[w], TransactionOf(w).withdraw_account)
          /\ Exists(entry[w], TransactionOf(w).deposit_account) )
        => SumBalances(accounts) = SumBalances(entry[w])

C6_Witness ==
    \E w \in Workers :
        /\ pc[w] = "completed"
        /\ TransactionOf(w).withdraw_account = "A1"
        /\ TransactionOf(w).deposit_account = "A3"
        /\ TransactionOf(w).amount = 2
        /\ accounts # entry[w]
        /\ SumBalances(accounts) = SumBalances(entry[w])

\* a leg of worker w acts in this step, at position `at`, on an account
\* name that is empty or names no account: no balance changes, the worker
\* goes on to `to` without panicking, and exactly the unknown non-empty
\* name is reported as not found
MissingLegStep(w, at, to, name) ==
    ( /\ pc[w] = at
      /\ pc'[w] # at
      /\ (name = "" \/ ~Exists(accounts, name)) )
    => /\ accounts' = accounts
       /\ pc'[w] = to
       /\ ~panicking'[w]
       /\ notFound'[w] = notFound[w] + (IF name = "" THEN 0 ELSE 1)

C7_Step ==
    \A w \in Workers :
        /\ MissingLegStep(w, "withdraw", "deposit",
              IF pc[w] = "withdraw" THEN TransactionOf(w).withdraw_account
              ELSE "")
        /\ MissingLegStep(w, "deposit", "completed",
              IF pc[w] = "deposit" THEN TransactionOf(w).deposit_account
              ELSE "")

\* C7: a leg whose account name is empty or unknown changes no balance
\* (with a diagnostic exactly when the name is not empty), the worker goes
\* on to the next leg, and no worker ever fails.
C7_MissingAccountNoOp ==
    /\ [](\A w \in Workers : ~panicking[w] /\ pc[w] # "panicked")
    /\ [][C7_Step]_vars

\* both legs name nothing that exists: two lookups skipped or failed, the
\* ledger as it was on entry
C7_Witness ==
    \E w \in Workers :
        /\ pc[w] = "completed"
        /\ TransactionOf(w).withdraw_account = "A9"
        /\ TransactionOf(w).deposit_account = ""
        /\ TransactionOf(w).amount = 2
        /\ notFound[w] = 1
        /\ accounts = entry[w]

C8_Inv ==
    /\ Len(report) <= 1
    /\ (Len(report) = 1) <=> (mainPc = "done")
    /\ mainPc \in {"report", "done"} =>
          /\ joined = transactions_length
          /\ \A w \in Workers :
                pc[w] = "finished" /\ calls[w] = <<w>>
                /\ w \notin accountsHolders /\ w \notin transactionsHolders
          /\ accounts = SerialFrom(MainAccounts, 1)
    /\ mainPc = "done" => report[1] = Snapshot(accounts)

C8_Step == mainPc \in {"report", "done"} => accounts' = accounts

\* C8: the report is printed once, when main is done; from the moment main
\* holds the guard for the report every worker has been joined and has
\* released its guards, the balances are those of the whole queue applied,
\* they are what the report shows, and they never change again.
C8_ReportAfterJoin == []C8_Inv /\ [][C8_Step]_vars

C8_Witness ==
    /\ mainPc = "report"
    /\ accountsHolders = {Main}
    /\ joined = 7
    /\ report = << >>

\* C9: once a worker has failed, main never gets past the join of that
\* worker, so it never locks for or prints the report; main's own failure
\* is at the join of a failed worker; when nothing can run any more main
\* has terminated abnormally; and no transaction is executed a second time.
C9_AbandonedGuard ==
    /\ \A w \in Workers :
          panicking[w] =>
              /\ joined <= w
              /\ mainPc \in {"spawn", "join", "panicked"}
              /\ report = << >>
    /\ mainPc = "panicked" => pc[handles[joined + 1]] = "panicked"
    /\ ((~ENABLED NextPanic) /\ (\E w \in Workers : panicking[w]))
          => mainPc = "panicked"
    /\ \A w \in Workers : calls[w] \in { << >>, <<w>> }

\* a worker failed inside execute_transaction, both mutexes are poisoned,
\* main has failed at a join
C9_Witness ==
    /\ mainPc = "panicked"
    /\ accountsPoisoned
    /\ transactionsPoisoned
    /\ \E w \in Workers : pc[w] = "panicked" /\ calls[w] = <<w>>
    /\ report = << >>

\* C10: under fair scheduling every worker runs its transaction and ends
\* with its guards released and main prints the report; a state in which
\* nothing can run is the state after the report.
C10_Terminates ==
    /\ []((~ENABLED Next) => mainPc = "done")
    /\ <>( /\ mainPc = "done"
           /\ Len(report) = 1
           /\ accountsHolders = {} /\ transactionsHolders = {}
           /\ \A w \in Workers : pc[w] = "finished" /\ calls[w] = <<w>> )

\* a worker is blocked on the accounts mutex while another thread holds it
C10_Witness ==
    \E w \in Workers, v \in Workers :
        /\ pc[w] = "lockAccounts"
        /\ pc[v] = "dropTransactions"
        /\ accountsHolders = {v}
        /\ ~ENABLED LockAccounts(w)

\* the worker threads that exist: spawned and not yet ended
Alive == { w \in Workers : pc[w] \notin {"unspawned", "finished", "panicked"} }

HoldsBoth(w) == w \in accountsHolders /\ w \in transactionsHolders

HoldsNone(w) == w \notin accountsHolders /\ w \notin transactionsHolders

\* C11 as stated: a worker that has printed its completion message holds
\* no guard.
C11_Original ==
    \A w \in Workers : completedMsg[w] => HoldsNone(w)

\* C11 amended: a worker prints its completion messages while it still
\* holds both guards; the guards are released after that, when the closure
\* ends, and a worker that has ended holds none.
C11_ReleaseAfterCompletion ==
    /\ \A w \in Workers :
          /\ pc[w] = "dropTransactions" /\ completedMsg[w] => HoldsBoth(w)
          /\ pc[w] = "finished" => completedMsg[w] /\ HoldsNone(w)
    /\ \A w \in Workers :
          HoldsBoth(w) /\ ~panicking[w] => (completedMsg[w] <=> pc[w] = "dropTransactions")

C11_Witness ==
    \E w \in Workers :
        /\ completedMsg[w]
        /\ pc[w] = "dropTransactions"
        /\ accountsHolders = {w}
        /\ transactionsHolders = {w}

C12_Inv ==
    /\ transactionsHolders \subseteq accountsHolders
    /\ \A w \in Workers :
          /\ pc[w] \in CriticalPcs => HoldsBoth(w)
          /\ pc[w] = "lockTransactions" =>
                w \in accountsHolders /\ w \notin transactionsHolders
          /\ pc[w] \in {"unspawned", "spawned", "lockAccounts", "finished"}
                => HoldsNone(w)
          /\ calls[w] # << >> /\ pc[w] # "finished" => w \in accountsHolders

C12_Step ==
    \A w \in Workers :
        /\ (w \notin transactionsHolders /\ w \in transactionsHolders')
              => (w \in accountsHolders /\ w \in accountsHolders')
        /\ (calls'[w] # calls[w]) => HoldsBoth(w)

\* C12: a worker takes the accounts guard first and the transactions guard
\* second, never the transactions guard without the accounts guard; it
\* reads its transaction and calls execute_transaction with both held, and
\* holds none when it has ended.
C12_LockProtocol == []C12_Inv /\ [][C12_Step]_vars

C12_Witness ==
    \E w \in Workers :
        /\ pc[w] = "lockTransactions"
        /\ accountsHolders = {w}
        /\ transactionsHolders = {}
        /\ \E v \in Workers : pc[v] = "finished"

\* C13: at most 2 worker threads exist at the same time.
C13_MaxTwoThreads == Cardinality(Alive) <= 2

\* the position of the account with this name (names are unique)
IndexOf(accts, name) == CHOOSE i \in 1 .. Len(accts) : accts[i].name = name

\* the ledger with `delta` added to the balance of the account `name`
Moved(accts, name, delta) ==
    [accts EXCEPT ![IndexOf(accts, name)].balance = @ + delta]

\* C14: when execute_transaction has run both legs and exactly one of the
\* two account names exists (the other is empty or unknown), the ledger is
\* the ledger on entry with the full amount deposited to, or withdrawn
\* from, the account that exists.
C14_LegIndependence ==
    \A w \in Workers :
        pc[w] = "completed" =>
            LET t == TransactionOf(w)
                e == entry[w]
            IN /\ (~Exists(e, t.withdraw_account) /\ Exists(e, t.deposit_account))
                     => accounts = Moved(e, t.deposit_account, t.amount)
               /\ (Exists(e, t.withdraw_account) /\ ~Exists(e, t.deposit_account))
                     => accounts = Moved(e, t.withdraw_account, -t.amount)

\* the withdraw account is unknown, the deposit of 2 to A2 went through
C14_Witness ==
    \E w \in Workers :
        /\ pc[w] = "completed"
        /\ TransactionOf(w).withdraw_account = "A9"
        /\ TransactionOf(w).deposit_account = "A2"
        /\ TransactionOf(w).amount = 2
        /\ notFound[w] = 1
        /\ accounts = Moved(entry[w], "A2", 2)
        /\ accounts # entry[w]

\* C15: when the withdraw leg has run on an account that exists, the
\* balance of that account is its balance on entry minus the full amount,
\* whatever that balance was, and nothing else has changed.
C15_NoSufficiencyCheck ==
    \A w \in Workers :
        ( /\ pc[w] = "deposit"
          /\ Exists(entry[w], TransactionOf(w).withdraw_account) )
        => /\ accounts = Moved(entry[w], TransactionOf(w).withdraw_account,
                               -TransactionOf(w).amount)
           /\ ~panicking[w]
           /\ notFound[w] = 0

\* 2 withdrawn from a balance of -1: the balance is -3
C15_Witness ==
    \E w \in Workers :
        /\ pc[w] = "deposit"
        /\ TransactionOf(w).withdraw_account = "A1"
        /\ TransactionOf(w).amount = 2
        /\ entry[w][1].balance = -1
        /\ accounts[1].balance = -3

ExecPcs == {"withdraw", "withdrawStore", "deposit", "depositStore", "completed"}

C16_Inv ==
    \A w \in Workers :
        pc[w] \in ExecPcs =>
            /\ accountsHolders = {w}
            /\ mainPc \notin {"report", "done"}
            /\ \A v \in Workers \ {w} : pc[v] \notin (CriticalPcs \cup ExecPcs)
            /\ pc[w] \in {"withdraw", "withdrawStore"} => accounts = entry[w]
            /\ pc[w] \in {"deposit", "depositStore"} =>
                  accounts = WithdrawLeg(entry[w], TransactionOf(w))
            /\ pc[w] = "completed" =>
                  accounts = execute_transaction(TransactionOf(w), entry[w])

C16_Step ==
    \A w \in Workers :
        (pc[w] \in ExecPcs /\ pc[w] # "completed") =>
            (w \in accountsHolders' /\ pc'[w] \in ExecPcs)

\* C16: from the call of execute_transaction to its return the worker is
\* the one holder of the accounts guard without interruption; meanwhile no
\* other worker is at a position that reads or writes the ledger, main is
\* not reporting, and the ledger is the one found on entry with exactly the
\* legs this worker has run so far.
C16_TwoLegAtomicity == []C16_Inv /\ [][C16_Step]_vars

\* transaction 1 (A1 to A2, 5): withdrawn, not yet deposited, others wait
C16_Witness ==
    \E w \in Workers :
        /\ pc[w] = "depositStore"
        /\ TransactionOf(w).withdraw_account # ""
        /\ accounts # entry[w]
        /\ accounts # execute_transaction(TransactionOf(w), entry[w])
        /\ \E v \in Workers : pc[v] = "lockAccounts"

\* C17: the ledger keeps its accounts, their names and their order, and
\* the queue keeps every transaction record; only balances change.
C17_FixedAccountsAndQueue ==
    /\ transactions = MainTransactions
    /\ Len(accounts) = Len(MainAccounts)
    /\ \A i \in 1 .. Len(MainAccounts) :
          /\ DOMAIN accounts[i] = {"name", "balance"}
          /\ accounts[i].name = MainAccounts[i].name
    /\ \A i \in 1 .. Len(accounts), j \in 1 .. Len(accounts) :
          accounts[i].name = accounts[j].name => i = j

C17_Witness ==
    /\ mainPc = "done"
    /\ \A i \in 1 .. Len(accounts) :
          accounts[i].balance # MainAccounts[i].balance
    /\ transactions = MainTransactions

C19_NestedGuards ==
    /\ \A t \in transactionsHolders : t \in accountsHolders
    /\ \A w \in Workers :
          pc[w] = "lockTransactions" =>
              /\ accountsHolders = {w}
              /\ transactionsHolders = {}
              /\ ENABLED LockTransactions(w)

\* a worker is between the two drops: accounts guard still held,
\* transactions guard released, other workers waiting
C19_Witness ==
    \E w \in Workers :
        /\ pc[w] = "dropAccounts"
        /\ accountsHolders = {w}
        /\ transactionsHolders = {}
        /\ \E v \in Workers : pc[v] = "lockAccounts"

\* the workers that have left their critical section
Applied == { w \in Workers : pc[w] = "finished" }

\* what the transactions k .. N of the workers in `done` add to the
\* balance of the account `name`
RECURSIVE NetFrom(_, _, _)
NetFrom(name, done, k) ==
    IF k > Len(transactions) THEN 0
    ELSE LET t == transactions[k]
         IN (IF (k - 1) \in done
             THEN (IF t.deposit_account = name THEN t.amount ELSE 0)
                  - (IF t.withdraw_account = name THEN t.amount ELSE 0)
             ELSE 0)
            + NetFrom(name, done, k + 1)

====
